---- MODULE Spec2Model ----
(***************************************************************************)
(* A model of go2web.py: the Cache class, make_http_request (the raw HTTP  *)
(* request engine with its redirect recursion, response framing, content   *)
(* decoding and cache policy), search and main (link navigation).          *)
(*                                                                         *)
(* Text and byte strings are sequences of one-byte symbols ("h", "/", the  *)
(* symbols "CR" "LF" "SP" for the control bytes), so that find, split,     *)
(* slicing and replace act as they do in the source.                       *)
(***************************************************************************)
EXTENDS Integers, Sequences, FiniteSets, TLC

(***************************************************************************)
(* Python string and bytes primitives                                      *)
(***************************************************************************)

\* The value None.
None == <<"None">>

Min(a, b) == IF a < b THEN a ELSE b

Max(a, b) == IF a < b THEN b ELSE a

\* s[i:j] with Python's 0-based, end-exclusive indices; negative indices count from the end.
Slice(s, i, j) ==
    LET n  == Len(s)
        ii == IF i < 0 THEN Max(n + i, 0) ELSE Min(i, n)
        jj == IF j < 0 THEN Max(n + j, 0) ELSE Min(j, n)
    IN  IF jj <= ii THEN << >> ELSE SubSeq(s, ii + 1, jj)

\* s[i:]
SliceFrom(s, i) == Slice(s, i, Len(s))

\* s.startswith(p)
StartsWith(s, p) == Len(p) <= Len(s) /\ SubSeq(s, 1, Len(p)) = p

\* s.find(sub): the 0-based index of the first occurrence, -1 when there is none.
Find(s, sub) ==
    LET hits == {i \in 0..(Len(s) - Len(sub)) : SubSeq(s, i + 1, i + Len(sub)) = sub}
    IN  IF hits = {} THEN -1 ELSE CHOOSE i \in hits : \A j \in hits : i <= j

\* sub in s
Contains(s, sub) == Find(s, sub) >= 0

\* s.split(sep): the list of the parts between the occurrences of sep.
RECURSIVE Split(_, _)
Split(s, sep) ==
    LET i == Find(s, sep)
    IN  IF i < 0 THEN <<s>>
        ELSE <<Slice(s, 0, i)>> \o Split(SliceFrom(s, i + Len(sep)), sep)

\* s.split(sep, 1): at most one split.
Split1(s, sep) ==
    LET i == Find(s, sep)
    IN  IF i < 0 THEN <<s>> ELSE <<Slice(s, 0, i), SliceFrom(s, i + Len(sep))>>

\* s.replace(old, new)
RECURSIVE Replace(_, _, _)
Replace(s, old, new) ==
    LET i == Find(s, old)
    IN  IF i < 0 THEN s
        ELSE Slice(s, 0, i) \o new \o Replace(SliceFrom(s, i + Len(old)), old, new)

Whitespace == {"SP", "CR", "LF"}

\* s.strip()
RECURSIVE Strip(_)
Strip(s) ==
    IF s = << >> THEN s
    ELSE IF s[1] \in Whitespace THEN Strip(Tail(s))
    ELSE IF s[Len(s)] \in Whitespace THEN Strip(SubSeq(s, 1, Len(s) - 1))
    ELSE s

Digits == {"0", "1", "2", "3", "4", "5", "6", "7", "8", "9"}

DigitVal(c) ==
    CASE c = "0" -> 0 [] c = "1" -> 1 [] c = "2" -> 2 [] c = "3" -> 3 [] c = "4" -> 4
      [] c = "5" -> 5 [] c = "6" -> 6 [] c = "7" -> 7 [] c = "8" -> 8 [] c = "9" -> 9

\* int(s) succeeds on a non-empty run of digits (surrounding whitespace allowed).
IsInt(s) == LET t == Strip(s) IN t # << >> /\ \A i \in 1..Len(t) : t[i] \in Digits

RECURSIVE DigitsVal(_)
DigitsVal(t) == IF t = << >> THEN 0 ELSE 10 * DigitsVal(SubSeq(t, 1, Len(t) - 1)) + DigitVal(t[Len(t)])

\* int(s), for s with IsInt(s)
IntOf(s) == DigitsVal(Strip(s))

UpperToLower ==
    [c \in {"G", "Z", "I", "P", "D", "E", "F", "L", "A", "T"} |->
        CASE c = "G" -> "g" [] c = "Z" -> "z" [] c = "I" -> "i" [] c = "P" -> "p"
          [] c = "D" -> "d" [] c = "E" -> "e" [] c = "F" -> "f" [] c = "L" -> "l"
          [] c = "A" -> "a" [] c = "T" -> "t"]

\* s.lower(), on the letters the model's header values use
Lower(s) == [i \in 1..Len(s) |-> IF s[i] \in DOMAIN UpperToLower THEN UpperToLower[s[i]] ELSE s[i]]

(***************************************************************************)
(* urllib.parse.urlparse, as make_http_request uses it (lines 51-56)       *)
(***************************************************************************)

S_http == <<"h", "t", "t", "p">>

S_https == <<"h", "t", "t", "p", "s">>

S_css == <<":", "/", "/">>

\* The index of the first byte of s that is in the set cs, Len(s) when none is.
FirstOf(s, cs) ==
    LET hits == {i \in 0..(Len(s) - 1) : s[i + 1] \in cs}
    IN  IF hits = {} THEN Len(s) ELSE CHOOSE i \in hits : \A j \in hits : i <= j

\* urlparse(url): scheme, netloc, path and query of a URL.
urlparse(url) ==
    LET c       == Find(url, <<":">>)
        hasSch  == c > 0
        scheme  == IF hasSch THEN Slice(url, 0, c) ELSE << >>
        rest    == IF hasSch THEN SliceFrom(url, c + 1) ELSE url
        hasNet  == StartsWith(rest, <<"/", "/">>)
        afterSl == IF hasNet THEN SliceFrom(rest, 2) ELSE rest
        ne      == IF hasNet THEN FirstOf(afterSl, {"/", "?"}) ELSE 0
        netloc  == Slice(afterSl, 0, ne)
        pq      == SliceFrom(afterSl, ne)
        q       == Find(pq, <<"?">>)
    IN  [scheme |-> scheme,
         netloc |-> netloc,
         path   |-> IF q < 0 THEN pq ELSE Slice(pq, 0, q),
         query  |-> IF q < 0 THEN << >> ELSE SliceFrom(pq, q + 1)]

\* The text after the last ':' of the netloc, None when the netloc has no ':'.
PortText(netloc) ==
    LET parts == Split(netloc, <<":">>)
    IN  IF Len(parts) = 1 THEN None ELSE parts[Len(parts)]

\* parsed_url.port raises ValueError on a port that is no integer or is out of range.
PortRaises(netloc) ==
    LET p == PortText(netloc)
    IN  p # None /\ p # << >> /\ (~IsInt(p) \/ IntOf(p) > 65535)

\* The value of parsed_url.port when it is None.
NoPort == -1

\* parsed_url.port: the integer port, NoPort when absent or empty.
PortOf(netloc) ==
    LET p == PortText(netloc)
    IN  IF p = None \/ p = << >> THEN NoPort ELSE IntOf(p)

(***************************************************************************)
(* Python dicts: a sequence of <<key, value>> pairs in insertion order     *)
(***************************************************************************)

EmptyDict == << >>

DictHas(d, k) == \E i \in 1..Len(d) : d[i][1] = k

\* d[k], for a key d has
DictGet(d, k) == d[CHOOSE i \in 1..Len(d) : d[i][1] = k][2]

\* d.get(k, default)
DictGetOr(d, k, default) == IF DictHas(d, k) THEN DictGet(d, k) ELSE default

\* d[k] = v: an existing key keeps its position, a new key is appended.
DictSet(d, k, v) ==
    IF DictHas(d, k)
    THEN [i \in 1..Len(d) |-> IF d[i][1] = k THEN <<k, v>> ELSE d[i]]
    ELSE Append(d, <<k, v>>)

(***************************************************************************)
(* class Cache (lines 13-44). The cache directory is `files`: a set of     *)
(* files [path, response, headers, mtime]; a path is the cache file's name *)
(* below cache_dir. The program creates no directory below cache_dir, so a *)
(* name holding '/' names a file in a directory that does not exist.       *)
(***************************************************************************)

\* Cache.get's default max_age, in seconds (line 26).
max_age == 3600

\* url.replace("://", "_").replace("/", "_").replace("?", "_").replace("&", "_"),
\* then "_" + content_type when content_type is truthy (lines 21-24).
get_cache_path(url, content_type) ==
    LET f == Replace(Replace(Replace(Replace(url, S_css, <<"_">>), <<"/">>, <<"_">>),
                             <<"?">>, <<"_">>), <<"&">>, <<"_">>)
    IN  IF content_type # None /\ content_type # << >>
        THEN f \o <<"_">> \o content_type
        ELSE f

\* The directory of the path exists: the path names a file directly in cache_dir.
ParentExists(path) == ~Contains(path, <<"/">>)

\* os.path.exists(cache_path)
PathExists(fs, path) == \E f \in fs : f.path = path

FileAt(fs, path) == CHOOSE f \in fs : f.path = path

\* The freshness test of Cache.get (line 32).
IsFreshInclusive(now, modified_time) == (now - modified_time) <= max_age

IsFresh(now, modified_time) == (now - modified_time) < max_age

\* Cache.get (lines 26-36): <<response, headers>> of a fresh entry, <<None, None>> otherwise.
CacheGet(fs, now, url, content_type) ==
    LET cache_path == get_cache_path(url, content_type)
    IN  IF PathExists(fs, cache_path) /\ IsFresh(now, FileAt(fs, cache_path).mtime)
        THEN <<FileAt(fs, cache_path).response, FileAt(fs, cache_path).headers>>
        ELSE <<None, None>>

\* open(cache_path, 'w') of Cache.set raises when the file's directory does not exist.
CacheSetRaises(url, content_type) == ~ParentExists(get_cache_path(url, content_type))

\* Cache.set (lines 38-44): the file is created or overwritten, its mtime is now. The
\* file holds response and headers; `key` records for whom it was written.
CacheSet(fs, now, url, response, headers, content_type) ==
    LET cache_path == get_cache_path(url, content_type)
    IN  {f \in fs : f.path # cache_path}
          \cup {[path |-> cache_path, response |-> response, headers |-> headers, mtime |-> now,
                 key |-> <<url, content_type>>]}

(***************************************************************************)
(* The byte strings the request engine names                               *)
(***************************************************************************)

CRLF == <<"CR", "LF">>

CRLFCRLF == <<"CR", "LF", "CR", "LF">>

S_Location == <<"L", "o", "c", "a", "t", "i", "o", "n">>

S_ContentType == <<"C", "o", "n", "t", "e", "n", "t", "-", "T", "y", "p", "e">>

S_ContentEncoding == <<"C", "o", "n", "t", "e", "n", "t", "-", "E", "n", "c", "o", "d", "i", "n", "g">>

S_charset_eq == <<"c", "h", "a", "r", "s", "e", "t", "=">>

S_gzip == <<"g", "z", "i", "p">>

S_deflate == <<"d", "e", "f", "l", "a", "t", "e">>

S_utf8 == <<"u", "t", "f", "-", "8">>

S_latin1 == <<"l", "a", "t", "i", "n", "-", "1">>

(***************************************************************************)
(* bytes.decode, gzip.decompress and zlib.decompress.                      *)
(* A byte below 0x80 is the symbol of its character. The bytes of a        *)
(* compressed stream are symbols of their own: a gzip stream is "GZ" (the  *)
(* member header), deflate codes ("Z1" inflates to "h", "Z2" to "i",       *)
(* "ZBAD" is an invalid code) and the trailer "GZCRC" (or "GZBADCRC", a    *)
(* trailer whose CRC does not match); a zlib stream is "ZL", deflate codes *)
(* and the trailer "ZLADLER". "xFF" is a byte that is not valid UTF-8.     *)
(***************************************************************************)

HighBytes == {"GZ", "GZCRC", "GZBADCRC", "ZL", "ZLADLER", "ZBAD", "Z1", "Z2", "xFF"}

\* The charsets the codec registry knows; any other name raises LookupError.
KnownCharsets == {S_utf8, S_latin1}

\* b.decode(charset, errors="replace") for a known charset: utf-8 replaces each invalid
\* byte by U+FFFD, latin-1 maps every byte to the code point of the same number.
DecodeReplace(b, charset) ==
    [i \in 1..Len(b) |-> IF charset = S_utf8 /\ b[i] \in HighBytes THEN "U+FFFD" ELSE b[i]]

\* b.decode("utf-8", errors="ignore"): invalid bytes are dropped.
DecodeIgnore(b) == SelectSeq(b, LAMBDA c : c \notin HighBytes)

InflateCode(c) == IF c = "Z1" THEN "h" ELSE "i"

\* The deflate codes of s up to the trailer: [exc, out], exc "" when the stream is sound.
RECURSIVE Inflate(_, _, _)
Inflate(s, trailer, truncated) ==
    IF s = << >> THEN [exc |-> truncated, out |-> << >>]
    ELSE IF s[1] = trailer THEN [exc |-> "", out |-> << >>]
    ELSE IF s[1] = "GZBADCRC" /\ trailer = "GZCRC" THEN [exc |-> "OSError", out |-> << >>]
    ELSE IF s[1] \in {"Z1", "Z2"}
         THEN LET r == Inflate(Tail(s), trailer, truncated)
              IN  [exc |-> r.exc, out |-> <<InflateCode(s[1])>> \o r.out]
    ELSE [exc |-> "zlib.error", out |-> << >>]

\* gzip.decompress(body): [exc, out]. Data that does not start with the gzip magic raises
\* BadGzipFile (an OSError), as does a CRC mismatch; a truncated stream raises EOFError
\* and an invalid deflate code zlib.error. Empty data decompresses to empty data.
GzipDecompress(body) ==
    IF body = << >> THEN [exc |-> "", out |-> << >>]
    ELSE IF body[1] # "GZ" THEN [exc |-> "OSError", out |-> << >>]
    ELSE Inflate(Tail(body), "GZCRC", "EOFError")

\* zlib.decompress(body): every failure is a zlib.error.
ZlibDecompress(body) ==
    IF body = << >> \/ body[1] # "ZL" THEN [exc |-> "zlib.error", out |-> << >>]
    ELSE Inflate(Tail(body), "ZLADLER", "zlib.error")

(***************************************************************************)
(* Response framing (lines 116-129)                                        *)
(***************************************************************************)

\* The header lines after the status line, folded into a dict (lines 126-129).
RECURSIVE ParseHeaderLines(_, _)
ParseHeaderLines(lines, acc) ==
    IF lines = << >> THEN acc
    ELSE LET line == Head(lines)
             kv   == Split1(line, <<":">>)
         IN  IF Contains(line, <<":">>)
             THEN ParseHeaderLines(Tail(lines), DictSet(acc, Strip(kv[1]), Strip(kv[2])))
             ELSE ParseHeaderLines(Tail(lines), acc)

\* response.find(b"\r\n\r\n") (line 117)
HeaderEnd(response) == Find(response, CRLFCRLF)

\* Lines 117-129: [exc, status_code, response_headers, body]. exc is "" when the status
\* line parses, "IndexError" when it has no second field and "ValueError" when that
\* field is no integer. header_end is used as found, -1 included.
FrameResponse(response) ==
    LET header_end  == HeaderEnd(response)
        headers_raw == DecodeIgnore(Slice(response, 0, header_end))
        body        == SliceFrom(response, header_end + 4)
        lines       == Split(headers_raw, CRLF)
        status_line == lines[1]
        fields      == Split(status_line, <<"SP">>)
    IN  IF Len(fields) < 2
        THEN [exc |-> "IndexError", status_code |-> 0, response_headers |-> EmptyDict, body |-> body]
        ELSE IF ~IsInt(fields[2])
        THEN [exc |-> "ValueError", status_code |-> 0, response_headers |-> EmptyDict, body |-> body]
        ELSE [exc |-> "", status_code |-> IntOf(fields[2]),
              response_headers |-> ParseHeaderLines(Tail(lines), EmptyDict), body |-> body]

(***************************************************************************)
(* Content decoding (lines 145-177)                                        *)
(***************************************************************************)

\* The charset of lines 146-150.
CharsetOf(response_headers) ==
    LET content_type == DictGetOr(response_headers, S_ContentType, << >>)
    IN  IF Contains(content_type, S_charset_eq)
        THEN Strip(Split(Split(content_type, S_charset_eq)[2], <<";">>)[1])
        ELSE S_utf8

\* body.decode(charset, errors="replace") where it is not guarded (lines 161, 168):
\* an unknown charset raises LookupError.
DecodeUnguarded(body, charset) ==
    IF charset \in KnownCharsets
    THEN [exc |-> "", text |-> DecodeReplace(body, charset), early |-> TRUE]
    ELSE [exc |-> "LookupError", text |-> << >>, early |-> TRUE]

\* Lines 170-177: an unknown charset falls back to utf-8.
DecodeGuarded(body, charset) ==
    [exc |-> "", early |-> FALSE,
     text |-> IF charset \in KnownCharsets THEN DecodeReplace(body, charset)
              ELSE DecodeReplace(body, S_utf8)]

\* Lines 145-177: [exc, text, early]. early: the text was returned at line 161 or 168,
\* before the cache is written. exc: the exception that leaves the block.
DecodeBody(response_headers, body) ==
    LET charset  == CharsetOf(response_headers)
        encoding == IF DictHas(response_headers, S_ContentEncoding)
                    THEN Lower(DictGet(response_headers, S_ContentEncoding))
                    ELSE None
    IN  IF encoding = S_gzip
        THEN LET z == GzipDecompress(body)
             IN  IF z.exc = "" THEN DecodeGuarded(z.out, charset)
                 ELSE IF z.exc = "OSError" THEN DecodeUnguarded(body, charset)
                 ELSE [exc |-> z.exc, text |-> << >>, early |-> FALSE]
        ELSE IF encoding = S_deflate
        THEN LET z == ZlibDecompress(body)
             IN  IF z.exc = "" THEN DecodeGuarded(z.out, charset)
                 ELSE DecodeUnguarded(body, charset)
        ELSE DecodeGuarded(body, charset)

(***************************************************************************)
(* The environment: the URLs callers ask for, what callers pass, and the   *)
(* byte buffers servers answer with                                        *)
(***************************************************************************)

S_Host == <<"H", "o", "s", "t">>

\* A request body: None, a str or a bytes object.
NoData == [kind |-> "none", val |-> << >>]

StrData(v) == [kind |-> "str", val |-> v]

BytesData(v) == [kind |-> "bytes", val |-> v]

U_a == <<"h", "t", "t", "p", ":", "/", "/", "a", "/", "p">>

U_a_p == <<"h", "t", "t", "p", ":", "/", "/", "a", "_", "p">>

U_b == <<"h", "t", "t", "p", "s", ":", "/", "/", "b", "/">>

U_port == <<"h", "t", "t", "p", ":", "/", "/", "a", ":", "8", "0", "8", "0", "/", "p">>

U_badport == <<"h", "t", "t", "p", ":", "/", "/", "a", ":", "x", "/">>

U_port0 == <<"h", "t", "t", "p", ":", "/", "/", "a", ":", "0", "/", "p">>

Urls == {U_a, U_a_p, U_b, U_port, U_port0, U_badport}

Methods == {"GET", "POST"}

S_text_html == <<"t", "e", "x", "t", "/", "h", "t", "m", "l">>

Accepts == {None, S_text_html}

\* A header the caller sets, and a caller's own Host value.
CallerHeaders == {None, <<<<S_Host, <<"e", "v", "i", "l">>>>, <<<<"X">>, <<"1">>>>>>}

Datas == {NoData, StrData(<<"k", "=", "U+00E9">>)}

HTTP11 == <<"H", "T", "T", "P", "/", "1", ".", "1">>

StatusLine(code) == HTTP11 \o <<"SP">> \o code \o <<"SP">> \o <<"X">> \o CRLF

HeaderLine(name, value) == name \o <<":", "SP">> \o value \o CRLF

\* A well-formed response: status line, header lines, blank line, body.
Response(code, headerlines, body) == StatusLine(code) \o headerlines \o CRLF \o body

EngineBuffers ==
    { \* text/html page
      Response(<<"2", "0", "0">>, HeaderLine(S_ContentType, S_text_html), <<"h", "i">>),
      \* empty body
      Response(<<"2", "0", "0">>, << >>, << >>),
      \* gzip, sound stream
      Response(<<"2", "0", "0">>, HeaderLine(S_ContentEncoding, S_gzip), <<"GZ", "Z1", "Z2", "GZCRC">>),
      \* gzip, stream cut short
      Response(<<"2", "0", "0">>, HeaderLine(S_ContentEncoding, S_gzip), <<"GZ", "Z1">>),
      \* gzip, invalid deflate code
      Response(<<"2", "0", "0">>, HeaderLine(S_ContentEncoding, S_gzip), <<"GZ", "ZBAD", "GZCRC">>),
      \* GZIP in capitals, not a gzip stream, charset latin-1
      Response(<<"2", "0", "0">>, HeaderLine(S_ContentType, <<"t", "e", "x", "t", "/", "h", "t", "m", "l", ";", "SP", "c", "h", "a", "r", "s", "e", "t", "=", "l", "a", "t", "i", "n", "-", "1">>) \o HeaderLine(S_ContentEncoding, <<"G", "Z", "I", "P">>), <<"h", "xFF">>),
      \* gzip, not a gzip stream, unknown charset
      Response(<<"2", "0", "0">>, HeaderLine(S_ContentType, <<"t", "e", "x", "t", "/", "h", "t", "m", "l", ";", "SP", "c", "h", "a", "r", "s", "e", "t", "=", "b", "o", "g", "u", "s">>) \o HeaderLine(S_ContentEncoding, S_gzip), <<"h", "i">>),
      \* deflate, invalid stream
      Response(<<"2", "0", "0">>, HeaderLine(S_ContentEncoding, S_deflate), <<"ZL", "ZBAD">>),
      \* unknown charset
      Response(<<"2", "0", "0">>, HeaderLine(S_ContentType, <<"t", "e", "x", "t", "/", "h", "t", "m", "l", ";", "SP", "c", "h", "a", "r", "s", "e", "t", "=", "b", "o", "g", "u", "s">>), <<"h", "xFF">>),
      \* not found
      Response(<<"4", "0", "4">>, << >>, <<"n", "o">>),
      \* 301 to an absolute URL
      Response(<<"3", "0", "1">>, HeaderLine(S_Location, <<"h", "t", "t", "p", ":", "/", "/", "b", "/", "p">>), << >>),
      \* 302 to a rooted path
      Response(<<"3", "0", "2">>, HeaderLine(S_Location, <<"/", "q">>), <<"m">>),
      \* 303 to a bare path
      Response(<<"3", "0", "3">>, HeaderLine(S_Location, <<"r">>), << >>),
      \* 301 without Location
      Response(<<"3", "0", "1">>, << >>, <<"m">>),
      \* 301 with a gzip body cut short
      Response(<<"3", "0", "1">>, HeaderLine(S_Location, <<"h", "t", "t", "p", ":", "/", "/", "b", "/", "p">>) \o HeaderLine(S_ContentEncoding, S_gzip), <<"GZ", "Z1">>),
      \* 301 to a URL with a malformed port
      Response(<<"3", "0", "1">>, HeaderLine(S_Location, <<"h", "t", "t", "p", ":", "/", "/", "b", ":", "x", "/">>), << >>),
      \* 200 without the blank line
      StatusLine(<<"2", "0", "0">>) \o HeaderLine(S_ContentType, S_text_html),
      \* 302 without the blank line
      StatusLine(<<"3", "0", "2">>) \o HeaderLine(S_Location, <<"/", "q">>),
      \* nothing received
      << >>,
      \* status field that is no number
      Response(<<"a", "b", "c">>, << >>, << >>) }

\* The pages the servers of the link-navigation runs answer with.
PageWithResults == <<"RB_noa", "RB_a", "RB_ad", "RB_b">>

PageWithManyResults == <<"RB_a", "RB_b", "RB_a", "RB_b", "RB_a", "RB_b", "RB_a", "RB_b", "RB_a", "RB_b", "RB_a", "RB_b">>

PageWithAnchors == <<"x", "A_q", "A_a">>

\* The buffers of the cache scenarios: a page, an empty page, a missing page and a
\* redirect to U_a.
CacheBuffers ==
    { Response(<<"2", "0", "0">>, HeaderLine(S_ContentType, S_text_html), <<"h", "i">>),
      Response(<<"2", "0", "0">>, << >>, << >>),
      Response(<<"4", "0", "4">>, << >>, <<"n", "o">>),
      Response(<<"3", "0", "1">>, HeaderLine(S_Location, U_a), << >>) }

\* The buffers of the command-line scenarios.
MainBuffers ==
    { Response(<<"2", "0", "0">>, HeaderLine(S_ContentType, S_text_html), PageWithResults),
      Response(<<"2", "0", "0">>, HeaderLine(S_ContentType, S_text_html), PageWithManyResults),
      Response(<<"2", "0", "0">>, HeaderLine(S_ContentType, S_text_html), PageWithAnchors),
      Response(<<"2", "0", "0">>, HeaderLine(S_ContentType, S_text_html), <<"x">>),
      Response(<<"3", "0", "2">>, HeaderLine(S_Location, <<"/", "q">>), << >>) }

Buffers == EngineBuffers \cup CacheBuffers \cup MainBuffers

\* The framing and the decoding of each buffer a server can send.
FrameTable == [b \in Buffers |-> FrameResponse(b)]

DecodeTable == [b \in Buffers |-> DecodeBody(FrameTable[b].response_headers, FrameTable[b].body)]

\* What the transport can do on one connection: fail, or deliver a buffer of bufs and close.
Transport(failures, bufs) ==
    [kind : failures, buf : {<< >>}] \cup [kind : {"closed"}, buf : bufs]

\* What recv had delivered when it failed: nothing, or a whole response.
NetOutcomes ==
    Transport({"connect_failed", "tls_failed", "send_failed", "recv_failed"}, EngineBuffers)
      \cup [kind : {"recv_failed"}, buf : {Response(<<"2", "0", "0">>, HeaderLine(S_ContentType, S_text_html), <<"h", "i">>)}]

CacheNetOutcomes == Transport({"recv_failed"}, CacheBuffers)

MainNetOutcomes == Transport({"connect_failed"}, MainBuffers)

(***************************************************************************)
(* make_http_request (lines 47-191): one activation of the function        *)
(***************************************************************************)

S_UserAgent == <<"U", "s", "e", "r", "-", "A", "g", "e", "n", "t">>

S_Connection == <<"C", "o", "n", "n", "e", "c", "t", "i", "o", "n">>

S_Accept == <<"A", "c", "c", "e", "p", "t">>

S_close == <<"c", "l", "o", "s", "e">>

\* The fixed User-Agent value of line 62; the engine never looks inside it.
USER_AGENT == <<"Mozilla/5.0 (Windows NT 10.0; Win64; x64) AppleWebKit/537.36 (KHTML, like Gecko) Chrome/134.0.0.0 Safari/537.36">>

\* The status codes line 132 treats as redirects.
RedirectStatuses == {301, 302, 303, 307, 308}

\* `if data:`
Truthy(data) == data.kind # "none" /\ data.val # << >>

\* `if accept:`
AcceptGiven(accept) == accept # None /\ accept # << >>

\* str.encode(): a character above U+007F ("U+00E9") takes two bytes.
RECURSIVE Utf8Encode(_)
Utf8Encode(s) ==
    IF s = << >> THEN << >>
    ELSE (IF s[1] = "U+00E9" THEN <<"xC3", "xA9">> ELSE <<s[1]>>) \o Utf8Encode(Tail(s))

\* In-band error results (lines 188 and 191).
ErrParsing(exc) == <<"Error parsing response: ", exc>>

ErrRequestAsParsing(exc) == <<"Error parsing response: ", exc>>

ErrRequest(exc) == <<"Error making HTTP request: ", exc>>

IsErrParsing(body) == body # << >> /\ body[1] = "Error parsing response: "

IsErrRequest(body) == body # << >> /\ body[1] = "Error making HTTP request: "

\* hostname.split(":")[0] (lines 61, 100, 102)
HostOnly(hostname) == Split(hostname, <<":">>)[1]

\* Lines 53-55.
RequestPath(parsed_url) ==
    LET path == IF parsed_url.path # << >> THEN parsed_url.path ELSE <<"/">>
    IN  IF parsed_url.query # << >> THEN path \o <<"?">> \o parsed_url.query ELSE path

\* Line 56.
ConnectPort(parsed_url) ==
    IF PortOf(parsed_url.netloc) # NoPort /\ PortOf(parsed_url.netloc) # 0
    THEN PortOf(parsed_url.netloc)
    ELSE IF parsed_url.scheme = S_http THEN 80 ELSE 443

SetupHeadersKeepCaller(headers, hostname, accept) ==
    LET h0 == IF headers = None THEN EmptyDict ELSE headers
        h1 == IF DictHas(h0, S_Host) THEN h0 ELSE DictSet(h0, S_Host, HostOnly(hostname))
        h2 == DictSet(h1, S_UserAgent, USER_AGENT)
        h3 == DictSet(h2, S_Connection, S_close)
    IN  IF AcceptGiven(accept) THEN DictSet(h3, S_Accept, accept) ELSE h3

\* Lines 59-66: the header dict after the mandatory headers are set.
SetupHeaders(headers, hostname, accept) ==
    LET h0 == IF headers = None THEN EmptyDict ELSE headers
        h1 == DictSet(h0, S_Host, HostOnly(hostname))
        h2 == DictSet(h1, S_UserAgent, USER_AGENT)
        h3 == DictSet(h2, S_Connection, S_close)
    IN  IF AcceptGiven(accept) THEN DictSet(h3, S_Accept, accept) ELSE h3

\* The content_type argument of cache.get and cache.set (lines 69-75, 180-183).
CacheHint(accept) == IF AcceptGiven(accept) THEN accept ELSE None

\* Lines 80-90 and 103: what is written to the socket. content_length is -1 when the
\* request has no Content-Length line.
WireRequest(a, parsed_url, headers) ==
    [url            |-> a.url,
     host           |-> HostOnly(parsed_url.netloc),
     port           |-> ConnectPort(parsed_url),
     tls            |-> parsed_url.scheme = S_https,
     method         |-> a.method,
     path           |-> RequestPath(parsed_url),
     headers        |-> headers,
     content_length |-> IF Truthy(a.data) THEN Len(a.data.val) ELSE -1,
     body           |-> IF Truthy(a.data) THEN Utf8Encode(a.data.val) ELSE << >>]

\* Lines 133-140: the URL of the follow-up request.
RedirectUrlWithoutPort(parsed_url, location) ==
    IF StartsWith(location, S_http \o S_css) \/ StartsWith(location, S_https \o S_css)
    THEN location
    ELSE IF StartsWith(location, <<"/">>)
    THEN parsed_url.scheme \o S_css \o HostOnly(parsed_url.netloc) \o location
    ELSE parsed_url.scheme \o S_css \o HostOnly(parsed_url.netloc) \o <<"/">> \o location

RedirectUrl(parsed_url, location) ==
    IF StartsWith(location, S_http \o S_css) \/ StartsWith(location, S_https \o S_css)
    THEN location
    ELSE IF StartsWith(location, <<"/">>)
    THEN parsed_url.scheme \o S_css \o parsed_url.netloc \o location
    ELSE parsed_url.scheme \o S_css \o parsed_url.netloc \o <<"/">> \o location

\* Line 132.
ShouldRedirect(a, f) ==
    /\ a.follow_redirects
    /\ f.status_code \in RedirectStatuses
    /\ DictHas(f.response_headers, S_Location)
    /\ a.max_redirects > 0

\* The value of `data` after the receive loop of lines 107-111 has ended: the loop's
\* last recv returned b"" and line 108 bound it to `data`.
DataAfterRecv == BytesData(<< >>)

\* Line 143: the arguments of the recursive call.
RedirectArgs(a, parsed_url, headers, f) ==
    [url              |-> RedirectUrl(parsed_url, DictGet(f.response_headers, S_Location)),
     method           |-> a.method,
     headers          |-> headers,
     data             |-> DataAfterRecv,
     follow_redirects |-> a.follow_redirects,
     accept           |-> a.accept,
     max_redirects    |-> a.max_redirects - 1]

CacheableAnyMethod(a, f) == f.status_code = 200

\* Line 179.
Cacheable(a, f) == a.method = "GET" /\ f.status_code = 200

\* What one activation does, as a record:
\*   outcome  "return" (result is the pair returned), "raise" (exc leaves the function)
\*            or "call" (line 143 calls make_http_request with `next`)
\*   fs       the cache directory afterwards
\*   hit      the pair came from the cache (lines 73, 78)
\*   tried    a connection was attempted; sent: the request was written to the socket
\*   wire     the request built by lines 80-90
\*   framed   the response was received and its status line parsed; frame: its parse
Activation(outcome, result, exc, next, fs, hit, tried, sent, wire, framed, frame) ==
    [outcome |-> outcome, result |-> result, exc |-> exc, next |-> next, fs |-> fs,
     hit |-> hit, tried |-> tried, sent |-> sent, wire |-> wire, framed |-> framed,
     frame |-> frame]

NoResult == <<None, None>>

NoFrame == [exc |-> "none", status_code |-> 0, response_headers |-> EmptyDict, body |-> << >>]

NoWire == [url |-> << >>, host |-> << >>, port |-> 0, tls |-> FALSE, method |-> "", path |-> << >>,
           headers |-> EmptyDict, content_length |-> -1, body |-> << >>]

\* Lines 131-185, for the parsed response f and its decoding d: follow the redirect,
\* or return the decoded body, writing the cache when line 179 says so.
FinishParsed(a, fs, now, next, wire, f, d) ==
    IF f.exc # ""
    THEN Activation("return", <<ErrParsing(f.exc), EmptyDict>>, "", a, fs,
                    FALSE, TRUE, TRUE, wire, FALSE, NoFrame)
    ELSE IF ShouldRedirect(a, f)
    THEN Activation("call", NoResult, "", next, fs, FALSE, TRUE, TRUE, wire, TRUE, f)
    ELSE IF d.exc # ""
    THEN Activation("return", <<ErrParsing(d.exc), EmptyDict>>, "", a, fs,
                    FALSE, TRUE, TRUE, wire, TRUE, f)
    ELSE IF d.early \/ ~Cacheable(a, f)
    THEN Activation("return", <<d.text, f.response_headers>>, "", a, fs,
                    FALSE, TRUE, TRUE, wire, TRUE, f)
    ELSE IF CacheSetRaises(a.url, CacheHint(a.accept))
    THEN Activation("return", <<ErrParsing("FileNotFoundError"), EmptyDict>>, "", a, fs,
                    FALSE, TRUE, TRUE, wire, TRUE, f)
    ELSE Activation("return", <<d.text, f.response_headers>>, "", a,
                    CacheSet(fs, now, a.url, d.text, f.response_headers, CacheHint(a.accept)),
                    FALSE, TRUE, TRUE, wire, TRUE, f)

\* The arguments of the recursive call when f asks for one (they are not used otherwise).
NextArgs(a, parsed_url, headers, f) ==
    IF f.exc = "" /\ ShouldRedirect(a, f) THEN RedirectArgs(a, parsed_url, headers, f) ELSE a

\* Lines 116-188, once the response is in: the inner try block.
ParseAndFinish(a, fs, now, parsed_url, headers, wire, response) ==
    FinishParsed(a, fs, now, NextArgs(a, parsed_url, headers, FrameTable[response]), wire,
                 FrameTable[response], DecodeTable[response])

CacheServesAnyMethod(a, cached) == cached[1] # None /\ cached[1] # << >>

\* Lines 69-78: the call returns the pair cache.get gave it.
CacheServes(a, cached) == a.method = "GET" /\ cached[1] # None /\ cached[1] # << >>

\* Lines 68-191 for the parsed URL, the header dict of lines 59-66, the cache's answer
\* and the request text.
RunPrepared(a, fs, now, net, parsed_url, headers, cached, wire) ==
    IF CacheServes(a, cached)
    THEN Activation("return", cached, "", a, fs, TRUE, FALSE, FALSE, NoWire, FALSE, NoFrame)
    ELSE IF Truthy(a.data) /\ a.data.kind = "bytes"
    THEN Activation("raise", NoResult, "TypeError", a, fs, FALSE, FALSE, FALSE, NoWire, FALSE, NoFrame)
    ELSE IF net.kind \in {"connect_failed", "tls_failed"}
    THEN Activation("return", <<ErrRequest(net.kind), EmptyDict>>, "", a, fs,
                    FALSE, TRUE, FALSE, wire, FALSE, NoFrame)
    ELSE IF net.kind \in {"send_failed", "recv_failed"}
    THEN Activation("return", <<ErrRequest(net.kind), EmptyDict>>, "", a, fs,
                    FALSE, TRUE, TRUE, wire, FALSE, NoFrame)
    ELSE ParseAndFinish(a, fs, now, parsed_url, headers, wire, net.buf)

\* Lines 57-191, for the parsed URL and the header dict of lines 59-66.
RunParsed(a, fs, now, net, parsed_url, headers) ==
    RunPrepared(a, fs, now, net, parsed_url, headers,
                CacheGet(fs, now, a.url, CacheHint(a.accept)),
                WireRequest(a, parsed_url, headers))

\* Lines 48-191 for the arguments a, the cache directory fs, the time now and the
\* transport's behaviour net = [kind, buf]. Line 56 raises on a malformed port.
RunActivation(a, fs, now, net) ==
    IF PortRaises(urlparse(a.url).netloc)
    THEN Activation("raise", NoResult, "ValueError", a, fs, FALSE, FALSE, FALSE, NoWire, FALSE, NoFrame)
    ELSE RunParsed(a, fs, now, net, urlparse(a.url),
                   SetupHeaders(a.headers, urlparse(a.url).netloc, a.accept))

(***************************************************************************)
(* search (lines 193-214) and format_html_content (lines 215-238).         *)
(* BeautifulSoup is a collaborator: in a page, the symbol of a result      *)
(* block or of an anchor stands for the element's markup, and the parser   *)
(* finds the elements in document order.                                   *)
(***************************************************************************)

S_search_url == <<"h", "t", "t", "p", "s", ":", "/", "/", "h", "t", "m", "l", ".", "d", "u", "c", "k", "d", "u", "c", "k", "g", "o", ".", "c", "o", "m", "/", "h", "t", "m", "l", "/", "?", "q", "=">>

S_ddg_prefix == <<"/", "/", "d", "u", "c", "k", "d", "u", "c", "k", "g", "o", ".", "c", "o", "m", "/", "l", "/", "?", "u", "d", "d", "g", "=">>

S_uddg_eq == <<"u", "d", "d", "g", "=">>

S_application_json == <<"a", "p", "p", "l", "i", "c", "a", "t", "i", "o", "n", "/", "j", "s", "o", "n">>

\* quote_plus(term) on terms of letters and spaces: a space becomes '+'.
quote_plus(term) == [i \in 1..Len(term) |-> IF term[i] = "SP" THEN "+" ELSE term[i]]

\* Line 195.
SearchUrl(term) == S_search_url \o quote_plus(term)

\* The result blocks a page can hold: <div class="result__body"> with, inside it, an
\* <a class="result__a"> (has_a) carrying href and text.
ResultBlocks == {"RB_a", "RB_b", "RB_ad", "RB_noa"}

BlockAnchor(sym) ==
    CASE sym = "RB_a"  -> [has_a |-> TRUE, text |-> <<"A">>,
                           href |-> S_ddg_prefix \o <<"h", "t", "t", "p", "%", "3", "A", "%", "2", "F", "%", "2", "F", "a", "%", "2", "F", "p", "&", "r", "u", "t", "=", "1">>]
      [] sym = "RB_b"  -> [has_a |-> TRUE, text |-> <<"B">>,
                           href |-> S_ddg_prefix \o <<"h", "t", "t", "p", "s", "%", "3", "A", "%", "2", "F", "%", "2", "F", "b", "%", "2", "F">>]
      [] sym = "RB_ad" -> [has_a |-> TRUE, text |-> <<"D">>, href |-> <<"h", "t", "t", "p", "s", ":", "/", "/", "a", "d", "s", "/">>]
      [] OTHER         -> [has_a |-> FALSE, text |-> << >>, href |-> << >>]

IsResultBlock(c) == c \in ResultBlocks

\* Lines 206-207.
UnwrapTracking(link) ==
    LET actual_url == Split(Split(link, S_uddg_eq)[2], <<"&">>)[1]
    IN  Replace(Replace(actual_url, <<"%", "3", "A">>, <<":">>), <<"%", "2", "F">>, <<"/">>)

RECURSIVE CollectResultsUncapped(_, _)
CollectResultsUncapped(blocks, links) ==
    IF blocks = << >> THEN links
    ELSE LET a_tag == BlockAnchor(Head(blocks))
         IN  IF a_tag.has_a /\ StartsWith(a_tag.href, S_ddg_prefix)
             THEN CollectResultsUncapped(Tail(blocks), Append(links, <<a_tag.text, UnwrapTracking(a_tag.href)>>))
             ELSE CollectResultsUncapped(Tail(blocks), links)

\* The loop of lines 201-210 over the remaining blocks, links being the list so far.
RECURSIVE CollectResults(_, _)
CollectResults(blocks, links) ==
    IF blocks = << >> THEN links
    ELSE LET a_tag == BlockAnchor(Head(blocks))
         IN  IF a_tag.has_a /\ StartsWith(a_tag.href, S_ddg_prefix)
             THEN LET more == Append(links, <<a_tag.text, UnwrapTracking(a_tag.href)>>)
                  IN  IF Len(more) >= 10 THEN more ELSE CollectResults(Tail(blocks), more)
             ELSE CollectResults(Tail(blocks), links)

\* Lines 199-212: the links search returns for the body make_http_request gave it.
SearchResults(response) ==
    CollectResults(SelectSeq(response, IsResultBlock), << >>)

\* The anchors a page can hold: <a href=...>text</a>.
Anchors == {"A_a", "A_q"}

AnchorOf(sym) ==
    IF sym = "A_a" THEN <<<<"a">>, U_a>> ELSE <<<<"q">>, <<"/", "q">>>>

IsAnchor(c) == c \in Anchors

\* Lines 233-238: the (text, href) pairs of the page's anchors, in document order.
format_html_content(content) ==
    LET as == SelectSeq(content, IsAnchor)
    IN  [i \in 1..Len(as) |-> AnchorOf(as[i])]

(***************************************************************************)
(* Bounds of the model                                                     *)
(***************************************************************************)

\* The largest max_redirects a caller passes.
MaxRedirects == 1

\* The number of calls of make_http_request in a behaviour of the cache scenarios.
MaxCalls == 2

\* The number of runs of main in a behaviour of the command-line scenarios.
MaxRuns == 2

\* Time is advanced in steps of half the cache's age window, up to MaxTicks steps.
MaxTicks == 2

TickStep == max_age \div 2

(***************************************************************************)
(* State                                                                   *)
(***************************************************************************)

VARIABLES
    clock,    \* datetime.now().timestamp(), in seconds
    files,    \* the files of the cache directory
    pc,       \* "idle", "running" (inside make_http_request), "returned" or "raised"
    args0,    \* the arguments of the caller's call
    cur,      \* the arguments of the running activation
    depth,    \* how many times line 143 has recursed in this call
    tries,    \* connections attempted in this call
    wires,    \* the requests written to sockets in this call, in order
    last,     \* the activation that ended the call
    result,   \* the pair the call returned
    exc,      \* the exception that left the call
    hops,     \* what the transport did on each of these connections: [kind, buf]
    entry0,   \* the cache file of the call's (url, accept) as it was when the call began
    files0,   \* the cache directory as it was when the call began
    prev,     \* the last GET, before this call, that fetched a status-200 response from
              \* the network: its url and accept, when it returned and what it returned
    budget,   \* calls of make_http_request a caller may still make
    runs,     \* runs of main that may still be started
    mainpc,   \* "idle"; "search", "fetch" or "link" while main waits for make_http_request; "exited"
    cmd,      \* the command line of the run of main
    slot,     \* the last-results file: [exists, items]
    slot0,    \* the last-results file as it was when the run of main began
    mainout,  \* how the run of main ended
    opened    \* the URLs main passed to make_http_request in this run

engine == <<pc, args0, cur, depth, tries, wires, hops, last, result, exc, entry0, files0, prev>>

mainvars == <<mainpc, cmd, slot, slot0, mainout, opened, runs>>

vars == <<clock, files, pc, args0, cur, depth, tries, wires, hops, last, result, exc, entry0,
          files0, prev, budget, runs, mainpc, cmd, slot, slot0, mainout, opened>>

NoArgs == [url |-> << >>, method |-> "", headers |-> None, data |-> NoData,
           follow_redirects |-> FALSE, accept |-> None, max_redirects |-> 0]

NoLast == [hit |-> FALSE, framed |-> FALSE, frame |-> NoFrame, at |-> 0]

NoEntry == [path |-> None, response |-> << >>, headers |-> EmptyDict, mtime |-> 0,
            key |-> <<None, None>>]

NoPrev == [url |-> None, accept |-> None, at |-> 0, result |-> NoResult]

NoCmd == [opts |-> {}, url |-> << >>, term |-> << >>, n |-> 0]

NoSlot == [exists |-> FALSE, items |-> << >>]

\* The state before anything has run: an empty cache directory, no last-results file.
InitWith(calls, mainruns) ==
    /\ clock = 0
    /\ files = {}
    /\ pc = "idle"
    /\ args0 = NoArgs
    /\ cur = NoArgs
    /\ depth = 0
    /\ tries = 0
    /\ wires = << >>
    /\ last = NoLast
    /\ result = NoResult
    /\ exc = ""
    /\ hops = << >>
    /\ entry0 = NoEntry
    /\ files0 = {}
    /\ prev = NoPrev
    /\ budget = calls
    /\ runs = mainruns
    /\ mainpc = "idle"
    /\ cmd = NoCmd
    /\ slot = NoSlot
    /\ slot0 = NoSlot
    /\ mainout = ""
    /\ opened = << >>

\* The cache file Cache.get would look at for (url, accept).
EntryFor(fs, url, accept) ==
    LET cache_path == get_cache_path(url, CacheHint(accept))
    IN  IF PathExists(fs, cache_path) THEN FileAt(fs, cache_path) ELSE NoEntry

\* The call that has ended was a GET that fetched a status-200 response from the network.
EndedFetched200 ==
    pc = "returned" /\ args0.method = "GET" /\ last.framed /\ last.frame.status_code = 200

\* Control enters make_http_request with the arguments a.
Enter(a) ==
    /\ pc' = "running"
    /\ args0' = a
    /\ cur' = a
    /\ depth' = 0
    /\ tries' = 0
    /\ wires' = << >>
    /\ last' = NoLast
    /\ result' = NoResult
    /\ exc' = ""
    /\ hops' = << >>
    /\ entry0' = EntryFor(files, a.url, a.accept)
    /\ files0' = files
    /\ prev' = IF EndedFetched200
               THEN [url |-> args0.url, accept |-> args0.accept, at |-> last.at, result |-> result]
               ELSE prev

\* The signature of line 47, with its defaults.
Args(url, method, headers, data, follow_redirects, accept, max_redirects) ==
    [url |-> url, method |-> method, headers |-> headers, data |-> data,
     follow_redirects |-> follow_redirects, accept |-> accept, max_redirects |-> max_redirects]

DefaultArgs(url, accept) == Args(url, "GET", None, NoData, TRUE, accept, 5)

\* A caller calls make_http_request(url, method, headers, data, follow_redirects, accept, max_redirects).
Call(url, method, headers, data, follow_redirects, accept, max_redirects) ==
    /\ pc # "running"
    /\ mainpc = "idle"
    /\ budget > 0
    /\ budget' = budget - 1
    /\ Enter(Args(url, method, headers, data, follow_redirects, accept, max_redirects))
    /\ UNCHANGED <<clock, files>>
    /\ UNCHANGED mainvars

\* The pair a call returns when its last activation did r: an exception that leaves a
\* recursive activation is caught by line 187 of its caller.
ResultOf(r) == IF r.outcome = "raise" THEN <<ErrParsing(r.exc), EmptyDict>> ELSE r.result

\* The state after an activation that did r on a transport that did net. Every caller
\* returns the callee's pair unchanged (line 143).
Finish(r, net) ==
    /\ files' = r.fs
    /\ tries' = tries + (IF r.tried THEN 1 ELSE 0)
    /\ wires' = IF r.sent THEN Append(wires, r.wire) ELSE wires
    /\ hops' = IF r.tried THEN Append(hops, net) ELSE hops
    /\ IF r.outcome = "call"
       THEN /\ pc' = "running"
            /\ cur' = r.next
            /\ depth' = depth + 1
            /\ UNCHANGED <<last, result, exc>>
       ELSE IF r.outcome = "raise" /\ depth = 0
       THEN /\ pc' = "raised"
            /\ exc' = r.exc
            /\ last' = [hit |-> r.hit, framed |-> r.framed, frame |-> r.frame, at |-> clock]
            /\ UNCHANGED <<cur, depth, result>>
       ELSE /\ pc' = "returned"
            /\ result' = ResultOf(r)
            /\ last' = [hit |-> r.hit, framed |-> r.framed, frame |-> r.frame, at |-> clock]
            /\ UNCHANGED <<cur, depth, exc>>

\* One activation of make_http_request runs against the transport behaviour net.
Activate(net) ==
    /\ pc = "running"
    /\ net.kind = "tls_failed" => urlparse(cur.url).scheme = S_https
    /\ Finish(RunActivation(cur, files, clock, net), net)
    /\ UNCHANGED <<clock, args0, entry0, files0, prev, budget>>
    /\ UNCHANGED mainvars

\* Time passes between calls.
Tick ==
    /\ pc # "running"
    /\ clock + TickStep <= MaxTicks * TickStep
    /\ clock' = clock + TickStep
    /\ UNCHANGED <<files, budget>>
    /\ UNCHANGED engine
    /\ UNCHANGED mainvars

(***************************************************************************)
(* main (lines 247-321)                                                    *)
(***************************************************************************)

\* The attributes of the namespace parse_args returns: the options lines 249-250 add.
ParserDests == {"url", "search"}

\* args.<name> raises AttributeError for a name the parser never added.
HasAttr(name) == name \in ParserDests

\* parse_args exits with status 2 on an option the parser does not know.
ParseFails(c) == ~(c.opts \subseteq ParserDests)

\* Lines 257-261 and 305-309: [exc, accept].
MainAccept(c) ==
    IF ~HasAttr("json") THEN [exc |-> "AttributeError", accept |-> None]
    ELSE IF "json" \in c.opts THEN [exc |-> "", accept |-> S_application_json]
    ELSE IF ~HasAttr("html") THEN [exc |-> "AttributeError", accept |-> None]
    ELSE IF "html" \in c.opts THEN [exc |-> "", accept |-> S_text_html]
    ELSE [exc |-> "", accept |-> None]

\* main ends at once with the outcome out.
MainExit(out) ==
    /\ mainpc' = "exited"
    /\ mainout' = out
    /\ opened' = << >>
    /\ UNCHANGED <<slot, clock, files, budget>>
    /\ UNCHANGED engine

\* main calls make_http_request(url, accept=accept) and waits for it in `at`.
MainRequest(at, url, accept) ==
    /\ mainpc' = at
    /\ mainout' = ""
    /\ opened' = <<url>>
    /\ Enter(DefaultArgs(url, accept))
    /\ UNCHANGED <<slot, clock, files, budget>>

\* A run of main with the command line c, up to its call of make_http_request.
Invoke(c) ==
    /\ mainpc \in {"idle", "exited"}
    /\ pc # "running"
    /\ runs > 0
    /\ runs' = runs - 1
    /\ cmd' = c
    /\ slot0' = slot
    /\ IF ParseFails(c) THEN MainExit("usage_error")
       ELSE IF "url" \in c.opts /\ c.url # << >>
       THEN IF MainAccept(c).exc # "" THEN MainExit(MainAccept(c).exc)
            ELSE MainRequest("fetch", c.url, MainAccept(c).accept)
       ELSE IF "search" \in c.opts /\ c.term # << >>
       THEN MainRequest("search", SearchUrl(c.term), None)
       ELSE IF ~HasAttr("link") THEN MainExit("AttributeError")
       ELSE IF "link" \in c.opts
       THEN IF ~slot.exists THEN MainExit("no_previous_results")
            ELSE IF 1 <= c.n /\ c.n <= Len(slot.items)
            THEN IF MainAccept(c).exc # "" THEN MainExit(MainAccept(c).exc)
                 ELSE MainRequest("link", slot.items[c.n][2], MainAccept(c).accept)
            ELSE MainExit("invalid_link_number")
       ELSE MainExit("help")

\* make_http_request has ended and main goes on to its end (lines 265-275, 279-291,
\* 313-317). An exception that left make_http_request ends main.
Resume ==
    /\ mainpc \in {"search", "fetch", "link"}
    /\ pc \in {"returned", "raised"}
    /\ mainpc' = "exited"
    /\ IF pc = "raised"
       THEN mainout' = exc /\ slot' = slot
       ELSE IF mainpc = "search"
       THEN LET results == SearchResults(result[1])
            IN  IF results # << >>
                THEN mainout' = "results" /\ slot' = [exists |-> TRUE, items |-> results]
                ELSE mainout' = "no_results" /\ slot' = slot
       ELSE IF Contains(DictGetOr(result[2], S_ContentType, << >>), S_application_json)
       THEN mainout' = "json" /\ slot' = slot
       ELSE IF mainpc = "fetch"
       THEN mainout' = "page" /\ slot' = [exists |-> TRUE, items |-> format_html_content(result[1])]
       ELSE mainout' = "page" /\ slot' = slot
    /\ UNCHANGED <<clock, files, budget, runs, cmd, slot0, opened>>
    /\ UNCHANGED engine

\* The command lines: -u URL, -u URL --json, -s TERM, --link N, --link N --html, none.
Commands ==
    [opts : {{"url"}, {"url", "json"}}, url : {U_a, U_b}, term : {<< >>}, n : {0}]
      \cup [opts : {{"search"}}, url : {<< >>}, term : {<<"x">>, <<"a", "SP", "b">>}, n : {0}]
      \cup [opts : {{"link"}, {"link", "html"}}, url : {<< >>}, term : {<< >>}, n : 0..3]
      \cup {NoCmd}

(***************************************************************************)
(* Specifications                                                          *)
(***************************************************************************)

\* One call of make_http_request with any arguments, against any server and transport.
Init == InitWith(1, 0)

Next ==
    \/ \E url \in Urls, method \in Methods, headers \in CallerHeaders, data \in Datas,
          follow_redirects \in BOOLEAN, accept \in Accepts, max_redirects \in 0..MaxRedirects :
            Call(url, method, headers, data, follow_redirects, accept, max_redirects)
    \/ \E net \in NetOutcomes : Activate(net)

Spec == Init /\ [][Next]_vars

\* An activation that is running comes to its end: it returns, it raises, or it calls
\* itself at line 143. Every step Activate takes is such a step, and Activate can take
\* one whenever pc = "running". The disjunctions with TRUE constrain nothing: each
\* names a value for TLC to try when it evaluates ENABLED.
Completes ==
    /\ pc = "running"
    /\ pc' \in {"returned", "raised"} \/ (pc' = "running" /\ depth' = depth + 1)
    /\ UNCHANGED <<clock, args0, entry0, files0, prev, budget>>
    /\ UNCHANGED mainvars
    /\ (depth' = depth \/ TRUE) /\ (files' = files \/ TRUE) /\ (cur' = cur \/ TRUE)
    /\ (tries' = tries \/ TRUE) /\ (wires' = wires \/ TRUE) /\ (hops' = hops \/ TRUE)
    /\ (last' = last \/ TRUE) /\ (result' = result \/ TRUE) /\ (exc' = exc \/ TRUE)

\* The same, with every exchange that has begun coming to its end: connect, sendall and
\* recv block until the peer or the network answers, and nothing else makes the
\* function wait.
SpecLive == Spec /\ WF_vars(Completes)

\* MaxCalls calls in a row against the same cache directory, with time passing between them.
InitCache == InitWith(MaxCalls, 0)

CacheUrls == {U_a, U_a_p, U_b}

NextCache ==
    \/ \E url \in CacheUrls, method \in Methods, accept \in Accepts :
            Call(url, method, None, NoData, TRUE, accept, MaxRedirects)
    \/ \E net \in CacheNetOutcomes : Activate(net)
    \/ Tick

SpecCache == InitCache /\ [][NextCache]_vars

\* MaxRuns runs of the command-line program, one after the other.
InitMain == InitWith(0, MaxRuns)

NextMain ==
    \/ \E c \in Commands : Invoke(c)
    \/ \E net \in MainNetOutcomes : Activate(net)
    \/ Resume

SpecMain == InitMain /\ [][NextMain]_vars

(***************************************************************************)
(* Properties of make_http_request                                         *)
(***************************************************************************)

\* The number of redirects followed and of network exchanges made never exceeds
\* max_redirects and max_redirects + 1.
HopBound ==
    pc # "idle" => depth <= args0.max_redirects /\ tries <= args0.max_redirects + 1

\* C1: a call with max_redirects = n follows at most n redirects and makes at most n + 1
\* network exchanges; with max_redirects = 0 a redirect-status response with a Location
\* is not followed and the call returns that response's own headers and its body.
C1_RedirectsBounded ==
    /\ HopBound
    /\ (pc = "returned" /\ args0.max_redirects = 0 /\ last.framed
          /\ last.frame.status_code \in RedirectStatuses
          /\ DictHas(last.frame.response_headers, S_Location))
       => /\ depth = 0
          /\ result[2] = last.frame.response_headers
          /\ \E charset \in KnownCharsets :
               \/ result[1] = DecodeReplace(last.frame.body, charset)
               \/ /\ GzipDecompress(last.frame.body).exc = ""
                  /\ result[1] = DecodeReplace(GzipDecompress(last.frame.body).out, charset)

\* C2: after a GET of (url, accept) that fetched a status-200 response from the network,
\* a second GET of the same (url, accept) within the age window returns the pair the
\* first one returned and makes no network exchange.
C2_SecondGetFromCache ==
    (pc = "returned" /\ args0.method = "GET" /\ prev # NoPrev
       /\ prev.url = args0.url /\ prev.accept = args0.accept
       /\ last.at - prev.at < max_age)
    => tries = 0 /\ hops = << >> /\ last.hit /\ result = prev.result

\* C3: the cache directory changes only at the end of a call whose method is GET, whose
\* final response has status 200 and which returns no error; a call with another method,
\* with another final status, or that ends in an error leaves the directory as it was.
C3_OnlyGet200Cached ==
    /\ pc = "running" => files = files0
    /\ files # files0 =>
         /\ pc = "returned"
         /\ args0.method = "GET"
         /\ last.framed /\ last.frame.status_code = 200
         /\ ~IsErrParsing(result[1]) /\ ~IsErrRequest(result[1])

\* A GET that ended with a status-200 response has written the cache, and the entry
\* holds what the call returned.
C3_Written ==
    /\ pc = "returned" /\ args0.method = "GET" /\ budget = 0
    /\ last.framed /\ last.frame.status_code = 200
    /\ files # files0
    /\ \E f \in files : f.response = result[1] /\ f.headers = result[2] /\ f.mtime = last.at

\* C4: every request sent after a followed redirect carries the method, the body with its
\* Content-Length, the Accept value and the caller's headers of the request before it.
C4_RedirectKeepsRequest ==
    \A k \in 2..Len(wires) :
        /\ wires[k].method = wires[k - 1].method
        /\ wires[k].body = wires[k - 1].body
        /\ wires[k].content_length = wires[k - 1].content_length
        /\ DictGetOr(wires[k].headers, S_Accept, None) = DictGetOr(wires[k - 1].headers, S_Accept, None)
        /\ DictGetOr(wires[k].headers, <<"X">>, None) = DictGetOr(wires[k - 1].headers, <<"X">>, None)

\* C5: a received buffer without the CRLFCRLF boundary ends the call with the pair
\* ("Error parsing response: ...", {}): no redirect is followed from it and the cache is
\* not written.
C5_NoBoundaryIsParseError ==
    \A i \in 1..Len(hops) :
        (hops[i].kind = "closed" /\ ~Contains(hops[i].buf, CRLFCRLF))
        => /\ i = Len(hops)
           /\ pc = "returned"
           /\ IsErrParsing(result[1])
           /\ result[2] = EmptyDict
           /\ files = files0

\* C6: a failure of connect, of the TLS handshake, of send or of receive ends the call
\* with the pair ("Error making HTTP request: ...", {}): nothing received is parsed or
\* returned, no further connection is made and the cache is not written.
C6_TransportFailureReported ==
    \A i \in 1..Len(hops) :
        hops[i].kind # "closed"
        => /\ i = Len(hops)
           /\ pc = "returned"
           /\ IsErrRequest(result[1])
           /\ result[2] = EmptyDict
           /\ ~last.framed /\ ~last.hit
           /\ files = files0

\* Receive failed after a whole response had arrived, on the connection made for a
\* followed redirect.
C6_FailedAfterRedirect ==
    /\ pc = "returned"
    /\ Len(hops) = 2
    /\ hops[1].kind = "closed"
    /\ hops[2].kind = "recv_failed" /\ hops[2].buf # << >>
    /\ IsErrRequest(result[1])

\* C7: a call never ends by raising: whatever the url, the body and the cache hold, it
\* returns a pair.
C7_NeverRaises == pc # "raised"

\* C8: when the cache directory takes the entry, a call whose final response parsed
\* returns a text with that response's headers and never an error pair; the text is the
\* decompressed body, or the raw body when decompression fails, decoded under the
\* response's charset, or under utf-8 when the charset is not a known one.
C8_DecodeAlwaysRecovers ==
    (pc = "returned" /\ last.framed /\ ~CacheSetRaises(cur.url, CacheHint(cur.accept)))
    => LET f        == last.frame
           named    == CharsetOf(f.response_headers)
           charset  == IF named \in KnownCharsets THEN named ELSE S_utf8
           encoding == Lower(DictGetOr(f.response_headers, S_ContentEncoding, << >>))
           z        == IF encoding = S_gzip THEN GzipDecompress(f.body)
                       ELSE IF encoding = S_deflate THEN ZlibDecompress(f.body)
                       ELSE [exc |-> "", out |-> f.body]
           payload  == IF z.exc = "" THEN z.out ELSE f.body
       IN  /\ ~IsErrParsing(result[1]) /\ ~IsErrRequest(result[1])
           /\ result[2] = f.response_headers
           /\ result[1] = DecodeReplace(payload, charset)

\* C9: an entry that is max_age old or older when a GET for its key begins is not
\* served: the call makes a network exchange, and exactly one when no redirect is
\* followed.
C9_StaleNeverServed ==
    (pc = "returned" /\ args0.method = "GET" /\ entry0 # NoEntry
       /\ last.at - entry0.mtime >= max_age)
    => /\ tries >= 1
       /\ ~(depth = 0 /\ last.hit)
       /\ depth = 0 => tries = 1

\* A GET found an entry exactly max_age old, went to the network once and replaced it.
C9_StaleRefetched ==
    /\ pc = "returned" /\ args0.method = "GET" /\ entry0 # NoEntry
    /\ last.at - entry0.mtime = max_age
    /\ depth = 0 /\ tries = 1
    /\ EntryFor(files, args0.url, args0.accept).mtime = last.at

(***************************************************************************)
(* Properties of main                                                      *)
(***************************************************************************)

\* C10: a run asked to open link N fetches if and only if the last-results file exists
\* and 1 <= N <= the number of its entries, and then it fetches the URL of entry N and
\* nothing else; otherwise it fetches nothing.
C10_OpenLinkFetchesEntry ==
    (mainpc = "exited" /\ "link" \in cmd.opts)
    => /\ opened # << >> <=> (slot.exists /\ 1 <= cmd.n /\ cmd.n <= Len(slot.items))
       /\ opened # << >> => opened = <<slot.items[cmd.n][2]>>

\* A run that searched, was asked to open a link or was given nothing to do: the slot
\* holds the results of a search that found some, and is as it was otherwise.
SlotAfterSearchOrLink ==
    (mainpc = "exited" /\ "url" \notin cmd.opts)
    => IF "search" \in cmd.opts /\ pc = "returned" /\ SearchResults(result[1]) # << >>
       THEN slot = [exists |-> TRUE, items |-> SearchResults(result[1])]
       ELSE slot = slot0

\* C11: after every run the last-results slot holds the ordered links of the latest fetch
\* or search that yielded links: a run that fetches a page fetches it and stores the
\* page's links when it has some, a search stores its results when it has some, and
\* every other run, an open-link run included, leaves the slot as it was.
C11_SlotHoldsLatestLinks ==
    /\ SlotAfterSearchOrLink
    /\ (mainpc = "exited" /\ "url" \in cmd.opts)
       => /\ opened = <<cmd.url>>
          /\ pc = "returned"
          /\ IF format_html_content(result[1]) # << >>
             THEN slot = [exists |-> TRUE, items |-> format_html_content(result[1])]
             ELSE slot = slot0

(***************************************************************************)
(* Properties of the requests sent                                         *)
(***************************************************************************)

\* C12: every request sent, on the first connection and after every redirect, carries a
\* Host header that names the host of the URL requested there (its authority without
\* the port), the fixed User-Agent and "Connection: close", whatever the caller passed.
C12_MandatoryHeaders ==
    \A k \in 1..Len(wires) :
        LET netloc == urlparse(wires[k].url).netloc
            host   == IF PortText(netloc) = None THEN netloc
                      ELSE Slice(netloc, 0, Len(netloc) - Len(PortText(netloc)) - 1)
        IN  /\ DictGetOr(wires[k].headers, S_Host, None) = host
            /\ DictGetOr(wires[k].headers, S_UserAgent, None) = USER_AGENT
            /\ DictGetOr(wires[k].headers, S_Connection, None) = S_close

\* A caller that passed its own Host header was redirected to another host, and both
\* requests were sent.
C12_RedirectedToOtherHost ==
    /\ Len(wires) = 2
    /\ args0.headers # None /\ DictHas(args0.headers, S_Host)
    /\ wires[1].host # wires[2].host
    /\ DictGet(wires[2].headers, S_Host) = wires[2].host

C14_NonGetBypassesCache ==
    (pc = "returned" /\ args0.method # "GET")
    => /\ ~last.hit
       /\ tries >= 1
       /\ hops # << >>
       /\ hops[Len(hops)].kind = "closed"
          => result = <<DecodeTable[hops[Len(hops)].buf].text,
                        FrameTable[hops[Len(hops)].buf].response_headers>>

\* A POST found a fresh entry for its URL, made one exchange and returned the server's
\* answer, which is not the entry.
C14_PostDespiteFreshEntry ==
    /\ pc = "returned" /\ args0.method = "POST"
    /\ entry0 # NoEntry /\ entry0.response # << >>
    /\ last.at - entry0.mtime < max_age
    /\ tries = 1 /\ last.framed
    /\ result[1] # entry0.response

(***************************************************************************)
(* Properties of search                                                    *)
(***************************************************************************)

\* C15: search returns at most 10 (title, url) pairs: the first 10 result blocks of the
\* body that hold a tracking link, in the order of the body, whatever the body is (an
\* error text and a page with more than 10 result blocks included).
C15_SearchAtMostTen ==
    (mainpc = "exited" /\ "search" \in cmd.opts /\ pc = "returned")
    => LET linked == SelectSeq(result[1],
                               LAMBDA c : /\ c \in ResultBlocks
                                          /\ BlockAnchor(c).has_a
                                          /\ Slice(BlockAnchor(c).href, 0, Len(S_ddg_prefix)) = S_ddg_prefix)
           first  == [i \in 1..Min(Len(linked), 10) |->
                        <<BlockAnchor(linked[i]).text, UnwrapTracking(BlockAnchor(linked[i]).href)>>]
       IN  IF first = << >>
           THEN mainout = "no_results"
           ELSE /\ mainout = "results"
                /\ slot.items = first
                /\ Len(slot.items) <= 10

\* A search whose page holds more than 10 result blocks returned 10 pairs.
C15_TenOfMore ==
    /\ mainpc = "exited" /\ "search" \in cmd.opts /\ mainout = "results"
    /\ Len(SelectSeq(result[1], IsResultBlock)) > 10
    /\ Len(slot.items) = 10

\* C16: every request is sent to port 80 when its URL names no port and its scheme is
\* http, to port 443 when it names no port and its scheme is https, and to the port the
\* URL names otherwise.
C16_ConnectPort ==
    \A k \in 1..Len(wires) :
        LET parsed == urlparse(wires[k].url)
            text   == PortText(parsed.netloc)
        IN  wires[k].port =
                IF text = None \/ text = << >>
                THEN (IF parsed.scheme = S_https THEN 443 ELSE 80)
                ELSE IntOf(text)

(***************************************************************************)
(* Termination                                                             *)
(***************************************************************************)

\* A call that has begun ends, by returning or by raising.
Termination == (pc = "running") ~> (pc \in {"returned", "raised"})

\* The hop counter of the running activation is the caller's max_redirects less the
\* redirects followed, and is never negative.
CounterDecreases ==
    pc # "idle" => cur.max_redirects = args0.max_redirects - depth /\ cur.max_redirects >= 0

\* C17: every call with max_redirects >= 0 eventually returns when each exchange
\* completes, however the server redirects; the hop counter goes down by one with each
\* followed redirect and is never negative, and a redirect response that arrives when
\* the counter is zero is returned as a normal result, not as an error.
C17_TerminatesNormally ==
    /\ (pc = "running") ~> (pc = "returned")
    /\ []CounterDecreases
    /\ []((pc = "returned" /\ cur.max_redirects = 0 /\ last.framed
             /\ last.frame.status_code \in RedirectStatuses
             /\ DictHas(last.frame.response_headers, S_Location))
          => ~IsErrParsing(result[1]) /\ ~IsErrRequest(result[1]))

\* C18: a cache hit for (url, accept) returns the body and headers of a status-200
\* answer to a GET of that very url with that very accept, and a call writes no entry
\* that another (url, accept) pair wrote: entries of distinct pairs are distinct files.
C18_EntriesIsolated ==
    /\ (pc = "returned" /\ last.hit)
       => /\ EntryFor(files, cur.url, cur.accept).key = <<cur.url, CacheHint(cur.accept)>>
          /\ result = <<EntryFor(files, cur.url, cur.accept).response,
                        EntryFor(files, cur.url, cur.accept).headers>>
    /\ \A f \in files0 :
         \/ f \in files
         \/ \E g \in files : g.path = f.path /\ g.key = f.key

\* C19: a GET whose final answer has status 200 and decodes returns the decoded body and
\* the answer's headers for every accept value, also when the entry cannot be stored:
\* a failure to write the cache is never returned as an error pair.
C19_CachingKeepsResult ==
    (pc = "returned" /\ args0.method = "GET" /\ last.framed /\ last.frame.status_code = 200
       /\ DecodeBody(last.frame.response_headers, last.frame.body).exc = "")
    => /\ ~IsErrParsing(result[1])
       /\ result = <<DecodeBody(last.frame.response_headers, last.frame.body).text,
                     last.frame.response_headers>>

\* C20: every request sent with a body carries a Content-Length equal to the number of
\* bytes sent after the blank line, and a request without a body carries none.
C20_ContentLengthIsByteCount ==
    \A k \in 1..Len(wires) :
        IF wires[k].body = << >>
        THEN wires[k].content_length = -1
        ELSE wires[k].content_length = Len(wires[k].body)
====
